---- MODULE Spec2Model ----
(***************************************************************************)
(* PyWhisper (whisper_gui.py): the chunked transcription pipeline driven   *)
(* by WhisperGUI.start_transcription, the WhisperTranscriber operations it *)
(* calls, and the Tk event handlers that share the event loop with it.     *)
(*                                                                         *)
(* The handler start_transcription runs synchronously inside the Tk event  *)
(* loop.  It is cut into steps at its calls to the outside world (audio    *)
(* engine, file system, remote service); pc is the handler's position.     *)
(* Each step carries the except clause of the handler when it raises.      *)
(***************************************************************************)
EXTENDS Integers, Sequences, FiniteSets, TLC

\* ---------------------------------------------------------------- bounds
\* Pipeline runs: the normalized artifact is k full chunk sizes, or one byte
\* more, for k in 0..MaxFullChunks.
MaxFullChunks == 2
\* split_audio on its own: artifact sizes up to MaxSizeMb megabytes (+1 byte)
MaxSizeMb == 7
\* split_audio on its own: chunk_size_mb in 1..MaxChunkSizeMb
MaxChunkSizeMb == 2
\* split_audio on its own: len(audio) in 0..MaxDuration milliseconds
MaxDuration == 64
\* a transcript has at most MaxTranscriptLen tokens
MaxTranscriptLen == 1

\* ------------------------------------------------------ program constants
BytesPerMb == 1024 * 1024
DefaultChunkSizeMb == 20
\* fraction bits of a Python float (IEEE 754 binary64)
DoubleFractionBits == 52
\* "\n", the character "\n\n".join puts twice between two parts
Newline == 10

\* ------------------------------------------------------------------ state
VARIABLES
    ffmpeg,         \* environment: the ffmpeg executable is on PATH
    client,         \* transcriber.client is initialised (load_config ran)
    file_valid,     \* file_path is set and the file exists
    create_srt,     \* the "Create SRT subtitles" check box
    pc,             \* position of the event loop / of start_transcription
    status,         \* status_var
    progress,       \* progress['value'] as <<numerator, denominator>>
    output_text,    \* content of the output text box (a string)
    srt_content,    \* self.srt_content
    saved,          \* save_output has written a file
    audio_file,     \* local audio_file of start_transcription
    file_size,      \* os.path.getsize of the normalized artifact
    chunk_size_mb,  \* parameter chunk_size_mb of split_audio
    duration,       \* len(audio) in split_audio, milliseconds
    num_chunks,     \* local num_chunks of split_audio
    chunks,         \* list of chunk file names
    windows,        \* <<start, end>> of every exported chunk
    exports,        \* number of chunk.export calls that completed
    chunk_idx,      \* loop variable i of the transcription loop (1-based)
    full_text,      \* local full_text
    srt_parts,      \* local srt_parts
    sent,           \* chunk indices for which a request was issued
    failed_chunk,   \* index of the chunk whose transcribe raised, or 0
    wrote_output,   \* this run inserted combined text into output_text
    disk,           \* temporary files of the current run that exist
    unlink_failed,  \* an os.unlink of this run raised on an existing file
    unlink_missing, \* os.unlink was called on a file that does not exist
    norm_unlinks    \* successful deletions of the normalized artifact

vars == <<ffmpeg, client, file_valid, create_srt, pc, status, progress,
          output_text, srt_content, saved, audio_file, file_size,
          chunk_size_mb, duration, num_chunks, chunks, windows, exports,
          chunk_idx, full_text, srt_parts, sent, failed_chunk, wrote_output,
          disk, unlink_failed, unlink_missing, norm_unlinks>>

gui_vars == <<ffmpeg, client, file_valid, create_srt, srt_content, saved>>

\* ------------------------------------------------------------ file names
NoFile == -1
\* the NamedTemporaryFile of optimize_audio
NormFile == 0
\* the NamedTemporaryFile of iteration i of split_audio (suffix _chunk{i}.ogg)
ChunkFile(i) == i + 1

\* --------------------------------------------------------------- statuses
StatusReady == <<"Ready to transcribe!">>
StatusStarting == <<"Starting transcription...">>
StatusPreparing == <<"Preparing audio chunks...">>
StatusProcessing(i, n) == <<"Processing chunk", i, n>>
StatusComplete == <<"Transcription complete!">>
StatusError == <<"Error occurred during transcription">>

RunningStates == {"Normalizing", "Splitting", "Exporting", "Transcribing",
                  "Aggregating", "Finally"}
TerminalStates == {"Done", "Failed"}

\* The Tk main loop dispatches one callback at a time: a handler can start
\* only when no handler is running.
EventLoopIdle == pc \in {"Idle"} \cup TerminalStates

\* ------------------------------------------------- float window arithmetic
RECURSIVE Log2Floor(_)
Log2Floor(q) == IF q < 2 THEN 0 ELSE 1 + Log2Floor(q \div 2)

RECURSIVE Pow2(_)
Pow2(k) == IF k <= 0 THEN 1 ELSE 2 * Pow2(k - 1)

RECURSIVE Pow2Mod(_, _)
Pow2Mod(k, n) == IF k <= 0 THEN 1 % n ELSE (2 * Pow2Mod(k - 1, n)) % n

RECURSIVE NegExponent(_, _)
NegExponent(d, n) == IF 2 * d >= n THEN 1 ELSE 1 + NegExponent(2 * d, n)

\* exponent e of the float d / n:  2^e <= d / n < 2^(e+1)
QuotientExponent(d, n) ==
    IF d >= n THEN Log2Floor(d \div n) ELSE 0 - NegExponent(d, n)

IsPow2(q) == q = Pow2(Log2Floor(q))

\* int(i * chunk_duration) with chunk_duration = len(audio) / num_chunks, as
\* binary64 arithmetic computes it (d < 2^31, n < 2^22, 0 <= i <= n).
\*   chunk_duration = fl(d / n) = (d * 2^k -+ r) / (n * 2^k), k = 52 - e,
\*   where rem = (d * 2^k) mod n; the quotient is rounded down when
\*   2 * rem < n and up otherwise (no ties in this range).
\*   When n does not divide i * d the product stays strictly between two
\*   integers and int() gives floor(i * d / n).  When it does, q = i * d / n,
\*   a quotient rounded up gives a product >= q, and a quotient rounded down
\*   gives q - t * 2^-k with t = i * rem / n, which fl() rounds back to q
\*   exactly when t is at most half the gap below q (ties go to q, whose
\*   significand is even); otherwise the product is below q and int() is q-1.
IntOfProduct(i, d, n) ==
    IF d = 0 \/ i = 0 THEN 0
    ELSE IF (i * d) % n # 0 THEN (i * d) \div n
    ELSE LET e == QuotientExponent(d, n)
             k == DoubleFractionBits - e
             rem == ((d % n) * Pow2Mod(k, n)) % n
             q == (i * d) \div n
             g == Log2Floor(q)
             \* four times half the gap below q, in units of 2^-k
             fourHalfGap == IF IsPow2(q) THEN Pow2(g - e) ELSE Pow2(g - e + 1)
         IN IF 2 * rem >= n THEN q
            ELSE IF 4 * i * rem > n * fourHalfGap THEN q - 1 ELSE q

\* ------------------------------------------------------------ split_audio
\* math.ceil(file_size_mb / chunk_size_mb); both divisions are exact enough
\* below 2^31 bytes that the float result is the integer ceiling.
NumChunksFloor(size, mb) == size \div (mb * BytesPerMb)

NumChunks(size, mb) == (size + mb * BytesPerMb - 1) \div (mb * BytesPerMb)

NeedsSplit(size, mb) == size > mb * BytesPerMb

\* ----------------------------------------------------------------- strings
\* A string is a sequence of character codes.  A transcript is a string; in
\* subtitle mode each of its tokens stands for one cue of the SRT document.
Transcripts == UNION {[1..n -> {1}] : n \in 0..MaxTranscriptLen}

Sep == <<Newline, Newline>>

RECURSIVE Join(_)
Join(parts) ==
    IF parts = <<>> THEN <<>>
    ELSE IF Len(parts) = 1 THEN parts[1]
    ELSE parts[1] \o Sep \o Join(Tail(parts))

RECURSIVE Strip(_)
Strip(s) ==
    IF s = <<>> THEN <<>>
    ELSE IF s[1] = Newline THEN Strip(Tail(s))
    ELSE IF s[Len(s)] = Newline THEN Strip(SubSeq(s, 1, Len(s) - 1))
    ELSE s

\* ----------------------------------------------------------------- inputs
NormalizedSizes ==
    {k * DefaultChunkSizeMb * BytesPerMb + d : k \in 0..MaxFullChunks, d \in {0, 1}}
SplitSizes == {k * BytesPerMb + d : k \in 0..MaxSizeMb, d \in {0, 1}}
SplitDurations == 0..MaxDuration
RunDurations == {MaxDuration}

\* ------------------------------------------------------------------- Init
\* check_dependencies, run by WhisperGUI.__init__: load_config is reached
\* only when ffmpeg is present, and sets the client only when the key exists.
ClientAfterCheck(hasFfmpeg, hasKey) == hasFfmpeg /\ hasKey

RunLocalsInit ==
    /\ audio_file = NoFile
    /\ file_size = 0
    /\ duration = 0
    /\ num_chunks = 0
    /\ chunks = <<>>
    /\ windows = <<>>
    /\ exports = 0
    /\ chunk_idx = 0
    /\ full_text = <<>>
    /\ srt_parts = <<>>
    /\ sent = <<>>
    /\ failed_chunk = 0
    /\ wrote_output = FALSE
    /\ unlink_failed = FALSE
    /\ unlink_missing = FALSE
    /\ norm_unlinks = 0

Init ==
    /\ \E f \in BOOLEAN, k \in BOOLEAN :
          /\ ffmpeg = f
          /\ client = ClientAfterCheck(f, k)
    /\ file_valid = FALSE
    /\ create_srt = FALSE
    /\ pc = "Idle"
    /\ status = StatusReady
    /\ progress = <<0, 1>>
    /\ output_text = <<>>
    /\ srt_content = "unset"
    /\ saved = FALSE
    /\ chunk_size_mb = DefaultChunkSizeMb
    /\ disk = {}
    /\ RunLocalsInit

\* ------------------------------------------------------------ GUI handlers
browse_file ==
    /\ EventLoopIdle
    /\ \E picked \in BOOLEAN :
          file_valid' = IF picked THEN TRUE ELSE file_valid
    /\ UNCHANGED <<ffmpeg, client, create_srt, pc, status, progress,
                   output_text, srt_content, saved, audio_file, file_size,
                   chunk_size_mb, duration, num_chunks, chunks, windows,
                   exports, chunk_idx, full_text, srt_parts, sent,
                   failed_chunk, wrote_output, disk, unlink_failed,
                   unlink_missing, norm_unlinks>>

toggle_create_srt ==
    /\ EventLoopIdle
    /\ create_srt' = ~create_srt
    /\ UNCHANGED <<ffmpeg, client, file_valid, pc, status, progress,
                   output_text, srt_content, saved, audio_file, file_size,
                   chunk_size_mb, duration, num_chunks, chunks, windows,
                   exports, chunk_idx, full_text, srt_parts, sent,
                   failed_chunk, wrote_output, disk, unlink_failed,
                   unlink_missing, norm_unlinks>>

clear_output ==
    /\ EventLoopIdle
    /\ output_text' = <<>>
    /\ UNCHANGED <<ffmpeg, client, file_valid, create_srt, pc, status,
                   progress, srt_content, saved, audio_file, file_size,
                   chunk_size_mb, duration, num_chunks, chunks, windows,
                   exports, chunk_idx, full_text, srt_parts, sent,
                   failed_chunk, wrote_output, disk, unlink_failed,
                   unlink_missing, norm_unlinks>>

save_output ==
    /\ EventLoopIdle
    /\ \E named \in BOOLEAN, written \in BOOLEAN :
          saved' = IF Strip(output_text) # <<>> /\ named /\ written
                   THEN TRUE ELSE saved
    /\ UNCHANGED <<ffmpeg, client, file_valid, create_srt, pc, status,
                   progress, output_text, srt_content, audio_file, file_size,
                   chunk_size_mb, duration, num_chunks, chunks, windows,
                   exports, chunk_idx, full_text, srt_parts, sent,
                   failed_chunk, wrote_output, disk, unlink_failed,
                   unlink_missing, norm_unlinks>>

\* ------------------------------------------------------------- file system
\* os.unlink(f) on an existing file: the file is gone unless the call raised
DiskKeepsFile(d, f, ok) == d

DiskAfterUnlink(d, f, ok) == IF ok THEN d \ {f} ELSE d

\* the guard of the final clean-up: 'audio_file' in locals() and
\* os.path.exists(audio_file)
FinallyUnlinksAlways(af, d) == af # NoFile

FinallyUnlinks(af, d) == af # NoFile /\ af \in d

\* ------------------------------------------------------ start_transcription
\* except Exception: the handler reports the error and falls to finally
Except ==
    /\ status' = StatusError
    /\ progress' = <<0, 1>>
    /\ pc' = "Finally"

\* where the handler goes when transcribe raises for the chunk at idx of n
PcSkipFailedChunk(idx, n) == IF idx = n THEN "Aggregating" ELSE "Transcribing"

PcOnTranscribeError(idx, n) == "Finally"

\* entry: the guard on file_path, then the first status update
start_transcription ==
    /\ EventLoopIdle
    /\ IF ~file_valid
       THEN UNCHANGED vars
       ELSE /\ pc' = "Normalizing"
            /\ status' = StatusStarting
            /\ progress' = <<10, 1>>
            /\ audio_file' = NoFile
            /\ file_size' = 0
            /\ duration' = 0
            /\ num_chunks' = 0
            /\ chunks' = <<>>
            /\ windows' = <<>>
            /\ exports' = 0
            /\ chunk_idx' = 0
            /\ full_text' = <<>>
            /\ srt_parts' = <<>>
            /\ sent' = <<>>
            /\ failed_chunk' = 0
            /\ wrote_output' = FALSE
            /\ unlink_failed' = FALSE
            /\ unlink_missing' = FALSE
            /\ norm_unlinks' = 0
            \* disk holds the files of the current run only: temporary names
            \* are fresh, nothing refers to a file left by an earlier run
            /\ disk' = {}
            /\ UNCHANGED <<gui_vars, output_text, chunk_size_mb>>

\* audio_file = self.transcriber.optimize_audio(self.file_path.get())
optimize_audio ==
    /\ pc = "Normalizing"
    /\ \/ \* AudioSegment.from_file raises: nothing was created
          /\ Except
          /\ UNCHANGED <<audio_file, file_size, disk>>
       \/ \* audio.export raises: the NamedTemporaryFile exists already and
          \* audio_file is never bound
          /\ Except
          /\ disk' = disk \cup {NormFile}
          /\ UNCHANGED <<audio_file, file_size>>
       \/ \* export needs the ffmpeg executable
          /\ ffmpeg
          /\ \E s \in NormalizedSizes : file_size' = s
          /\ disk' = disk \cup {NormFile}
          /\ audio_file' = NormFile
          /\ status' = StatusPreparing
          /\ progress' = <<30, 1>>
          /\ pc' = "Splitting"
    /\ UNCHANGED <<gui_vars, output_text, chunk_size_mb, duration, num_chunks,
                   chunks, windows, exports, chunk_idx, full_text, srt_parts,
                   sent, failed_chunk, wrote_output, unlink_failed,
                   unlink_missing, norm_unlinks>>

\* split_audio returned: the loop header of the transcription loop
EnterTranscribing(n) ==
    /\ pc' = "Transcribing"
    /\ chunk_idx' = 1
    /\ status' = StatusProcessing(1, n)
    /\ progress' = <<50, 1>>

\* split_audio up to the start of its export loop
split_audio(durations) ==
    /\ pc = "Splitting"
    /\ IF ~NeedsSplit(file_size, chunk_size_mb)
       THEN /\ chunks' = <<audio_file>>
            /\ EnterTranscribing(1)
            /\ UNCHANGED <<num_chunks, duration>>
       ELSE \/ \* AudioSegment.from_file(input_file) raises
               /\ Except
               /\ UNCHANGED <<chunks, chunk_idx, num_chunks, duration>>
            \/ /\ num_chunks' = NumChunks(file_size, chunk_size_mb)
               /\ \E d \in durations : duration' = d
               /\ pc' = "Exporting"
               /\ UNCHANGED <<chunks, chunk_idx, status, progress>>
    /\ UNCHANGED <<gui_vars, output_text, audio_file, file_size, chunk_size_mb,
                   windows, exports, full_text, srt_parts, sent, failed_chunk,
                   wrote_output, disk, unlink_failed,
                   unlink_missing, norm_unlinks>>

\* one iteration of the export loop of split_audio
export_chunk ==
    /\ pc = "Exporting"
    /\ LET i == Len(chunks)
           start == IntOfProduct(i, duration, num_chunks)
           end == IntOfProduct(i + 1, duration, num_chunks)
       IN /\ disk' = disk \cup {ChunkFile(i)}
          /\ \/ \* chunk.export raises: the list built so far is lost
                /\ Except
                /\ UNCHANGED <<chunks, windows, exports, chunk_idx>>
             \/ /\ chunks' = Append(chunks, ChunkFile(i))
                /\ windows' = Append(windows, <<start, end>>)
                /\ exports' = exports + 1
                /\ IF i + 1 = num_chunks
                   THEN EnterTranscribing(num_chunks)
                   ELSE UNCHANGED <<pc, chunk_idx, status, progress>>
    /\ UNCHANGED <<gui_vars, output_text, audio_file, file_size, chunk_size_mb,
                   duration, num_chunks, full_text, srt_parts, sent,
                   failed_chunk, wrote_output, unlink_failed, unlink_missing,
                   norm_unlinks>>

\* one iteration of the transcription loop: transcribe, collect, unlink
transcribe_chunk ==
    /\ pc = "Transcribing"
    /\ LET n == Len(chunks)
           chunk == chunks[chunk_idx]
       IN \/ \* transcribe raises before any request: client not initialised
             /\ ~client
             /\ failed_chunk' = chunk_idx
             /\ status' = StatusError
             /\ progress' = <<0, 1>>
             /\ pc' = PcOnTranscribeError(chunk_idx, n)
             /\ UNCHANGED <<sent, full_text, srt_parts, chunk_idx, disk,
                            unlink_failed, unlink_missing, norm_unlinks>>
          \/ \* the request is issued and fails
             /\ client
             /\ sent' = Append(sent, chunk_idx)
             /\ failed_chunk' = chunk_idx
             /\ status' = StatusError
             /\ progress' = <<0, 1>>
             /\ pc' = PcOnTranscribeError(chunk_idx, n)
             /\ UNCHANGED <<full_text, srt_parts, chunk_idx, disk,
                            unlink_failed, unlink_missing, norm_unlinks>>
          \/ \* the request is issued and answered
             /\ client
             /\ sent' = Append(sent, chunk_idx)
             /\ \E t \in Transcripts :
                   /\ full_text' = Append(full_text, t)
                   \* "if srt:" - an empty document is falsy
                   /\ srt_parts' = IF create_srt /\ t # <<>>
                                   THEN Append(srt_parts, t) ELSE srt_parts
             /\ IF chunk \in disk
                THEN \E ok \in BOOLEAN :
                        /\ disk' = DiskAfterUnlink(disk, chunk, ok)
                        /\ unlink_failed' = (unlink_failed \/ ~ok)
                        /\ norm_unlinks' = IF ok /\ chunk = NormFile
                                           THEN norm_unlinks + 1
                                           ELSE norm_unlinks
                        /\ UNCHANGED unlink_missing
                ELSE /\ unlink_missing' = TRUE
                     /\ UNCHANGED <<disk, unlink_failed, norm_unlinks>>
             /\ progress' = <<50 * n + 40 * chunk_idx, n>>
             /\ UNCHANGED failed_chunk
             /\ IF chunk_idx = n
                THEN /\ pc' = "Aggregating"
                     /\ UNCHANGED <<chunk_idx, status>>
                ELSE /\ chunk_idx' = chunk_idx + 1
                     /\ status' = StatusProcessing(chunk_idx + 1, n)
                     /\ UNCHANGED pc
    /\ UNCHANGED <<gui_vars, output_text, audio_file, file_size, chunk_size_mb,
                   duration, num_chunks, chunks, windows, exports,
                   wrote_output>>

\* "Combine results" up to the end of the try block
aggregate ==
    /\ pc = "Aggregating"
    /\ output_text' = Join(full_text)
    /\ wrote_output' = TRUE
    /\ IF create_srt /\ srt_parts # <<>>
       THEN \* self.transcriber.combine_srt: WhisperTranscriber has no such
            \* attribute, the call raises AttributeError
            Except
       ELSE /\ status' = StatusComplete
            /\ progress' = <<100, 1>>
            /\ pc' = "Finally"
    /\ UNCHANGED <<gui_vars, audio_file, file_size, chunk_size_mb, duration,
                   num_chunks, chunks, windows, exports, chunk_idx, full_text,
                   srt_parts, sent, failed_chunk, disk, unlink_failed,
                   unlink_missing, norm_unlinks>>

\* the finally clause, after which the handler returns to the event loop
finally_cleanup ==
    /\ pc = "Finally"
    /\ IF FinallyUnlinks(audio_file, disk)
       THEN IF audio_file \in disk
            THEN \E ok \in BOOLEAN :
                    /\ disk' = DiskAfterUnlink(disk, audio_file, ok)
                    /\ unlink_failed' = (unlink_failed \/ ~ok)
                    /\ norm_unlinks' = IF ok THEN norm_unlinks + 1
                                       ELSE norm_unlinks
                    /\ UNCHANGED unlink_missing
            ELSE /\ unlink_missing' = TRUE
                 /\ UNCHANGED <<disk, unlink_failed, norm_unlinks>>
       ELSE UNCHANGED <<disk, unlink_failed, unlink_missing, norm_unlinks>>
    /\ pc' = IF status = StatusComplete THEN "Done" ELSE "Failed"
    /\ UNCHANGED <<gui_vars, status, progress, output_text, audio_file,
                   file_size, chunk_size_mb, duration, num_chunks, chunks,
                   windows, exports, chunk_idx, full_text, srt_parts, sent,
                   failed_chunk, wrote_output>>

\* ---------------------------------------------------------- specifications
Next ==
    \/ browse_file
    \/ toggle_create_srt
    \/ clear_output
    \/ save_output
    \/ start_transcription
    \/ optimize_audio
    \/ split_audio(RunDurations)
    \/ export_chunk
    \/ transcribe_chunk
    \/ aggregate
    \/ finally_cleanup

Spec == Init /\ [][Next]_vars

\* split_audio on its own: every size, chunk size and duration of the bounds
SplitInit ==
    /\ ffmpeg = TRUE
    /\ client = TRUE
    /\ file_valid = TRUE
    /\ create_srt = FALSE
    /\ pc = "Splitting"
    /\ status = StatusPreparing
    /\ progress = <<30, 1>>
    /\ output_text = <<>>
    /\ srt_content = "unset"
    /\ saved = FALSE
    /\ audio_file = NormFile
    /\ file_size \in SplitSizes
    /\ chunk_size_mb \in 1..MaxChunkSizeMb
    /\ duration = 0
    /\ num_chunks = 0
    /\ chunks = <<>>
    /\ windows = <<>>
    /\ exports = 0
    /\ chunk_idx = 0
    /\ full_text = <<>>
    /\ srt_parts = <<>>
    /\ sent = <<>>
    /\ failed_chunk = 0
    /\ wrote_output = FALSE
    /\ disk = {NormFile}
    /\ unlink_failed = FALSE
    /\ unlink_missing = FALSE
    /\ norm_unlinks = 0

SplitNext ==
    \/ split_audio(SplitDurations)
    \/ export_chunk

SplitSpec == SplitInit /\ [][SplitNext]_vars

\* ------------------------------------------------------------------ claims
\* every stage of the run succeeded: one result per chunk
AllChunksTranscribed == Len(chunks) >= 1 /\ Len(full_text) = Len(chunks)

\* C1: after any run, successful or failed at any stage, no temporary file
\* created by that run still exists, provided no deletion failed.
NoTempFilesRemain ==
    (pc \in TerminalStates /\ ~unlink_failed) => disk = {}

\* C2: when the transcription of chunk k fails the run ends in Failed, no
\* chunk after k is sent and the output is not set by that run; combined
\* text that a run writes is the blank-line join, in index order, of one
\* result for each of the N chunks.
NoPartialCombinedResult ==
    /\ failed_chunk # 0 =>
          /\ pc \in {"Finally", "Failed"}
          /\ status = StatusError
          /\ ~wrote_output
          /\ \A k \in 1..Len(sent) : sent[k] <= failed_chunk
    /\ (pc = "Finally" /\ wrote_output) =>
          /\ failed_chunk = 0
          /\ Len(full_text) = Len(chunks)
          /\ sent = [k \in 1..Len(chunks) |-> k]
          /\ LET acc[k \in 0..Len(full_text)] ==
                     IF k = 0 THEN <<>>
                     ELSE IF k = 1 THEN full_text[1]
                     ELSE acc[k - 1] \o <<Newline, Newline>> \o full_text[k]
             IN output_text = acc[Len(full_text)]

\* a run that failed at chunk 2 of 3 (scenario D)
FailedAtSecondOfThree ==
    /\ pc = "Failed"
    /\ Len(chunks) = 3
    /\ failed_chunk = 2
    /\ sent = <<1, 2>>

\* C3: split_audio returns the normalized artifact alone, without any
\* export, when its size is at most the chunk size M, and otherwise exactly
\* ceil(size / M) chunks made by that many exports.
ChunkCountLaw ==
    pc = "Transcribing" =>
       LET m == chunk_size_mb * BytesPerMb
           n == Len(chunks)
       IN IF file_size <= m
          THEN chunks = <<audio_file>> /\ exports = 0
          ELSE /\ exports = n
               /\ (n - 1) * m < file_size
               /\ file_size <= n * m

\* split_audio returned three exported chunks
SplitIntoThree ==
    /\ pc = "Transcribing"
    /\ file_size > chunk_size_mb * BytesPerMb
    /\ Len(chunks) = 3
    /\ exports = 3

\* C4: the windows of a split are ordered, start at 0, are contiguous, have
\* start <= end, and the last one ends exactly at the audio's duration.
WindowsCoverDuration ==
    (pc = "Transcribing" /\ windows # <<>>) =>
       /\ Len(windows) = num_chunks
       /\ windows[1][1] = 0
       /\ \A k \in 1..Len(windows) : windows[k][1] <= windows[k][2]
       /\ \A k \in 1..(Len(windows) - 1) : windows[k + 1][1] = windows[k][2]
       /\ windows[Len(windows)][2] = duration

\* C5: in subtitle mode, once all N chunks are transcribed, the combined
\* subtitle sequence exists, has one cue per cue of every chunk, numbered
\* 1..total with one running counter, with non-decreasing start offsets.
CombinedSubtitlesBuilt ==
    (pc = "Finally" /\ create_srt /\ AllChunksTranscribed) =>
       /\ srt_content # "unset"
       /\ LET count[k \in 0..Len(srt_parts)] ==
                  IF k = 0 THEN 0 ELSE count[k - 1] + Len(srt_parts[k])
          IN /\ Len(srt_content) = count[Len(srt_parts)]
             /\ \A c \in 1..Len(srt_content) : srt_content[c].index = c
             /\ \A c \in 1..(Len(srt_content) - 1) :
                   srt_content[c].start <= srt_content[c + 1].start

\* C6: a run whose normalization, splitting and every transcription
\* succeeded ends in Done with status complete and progress 100, with
\* subtitle mode off and on, and in subtitle mode the combined subtitle
\* document is then available.
SuccessfulRunEndsDone ==
    /\ (pc = "Finally" /\ AllChunksTranscribed) =>
          /\ status = StatusComplete
          /\ progress = <<100, 1>>
          /\ create_srt => srt_content # "unset"
    /\ (pc \in TerminalStates /\ AllChunksTranscribed) => pc = "Done"

\* C7: with missing credentials or without ffmpeg no run enters
\* Normalizing or Splitting, creates a temporary file or issues a request.
ConfigErrorBlocksRun ==
    (~ffmpeg \/ ~client) =>
       /\ pc \notin {"Normalizing", "Splitting", "Exporting"}
       /\ disk = {}
       /\ sent = <<>>

CallerStaysResponsive ==
    pc \in RunningStates =>
       /\ ENABLED browse_file
       /\ ENABLED clear_output
       /\ ENABLED save_output

\* C10: when optimize_audio returned an artifact, it is gone when the
\* handler returns, whatever the outcome, provided no deletion failed; it
\* was deleted exactly once and no deletion of a missing file was attempted.
NormalizedArtifactRemovedOnce ==
    (pc \in TerminalStates /\ audio_file # NoFile /\ ~unlink_failed) =>
       /\ audio_file \notin disk
       /\ norm_unlinks = 1
       /\ ~unlink_missing

\* a successful run without split: the single chunk is the artifact itself
NoSplitRunDone ==
    /\ pc = "Done"
    /\ chunks = <<NormFile>>
    /\ audio_file = NormFile
    /\ ~unlink_failed
    /\ norm_unlinks = 1

====
